---- MODULE Spec2Model ----
(***************************************************************************)
(* A model of format_diagnosis_to_html (diagnose_and_generate_html.py),    *)
(* the line-based list/paragraph renderer with inline bold substitution.   *)
(*                                                                         *)
(* Text values are sequences of one-character strings.  Every invocation   *)
(* of the function is a call c with its own argument, locals and return    *)
(* value; the variables are functions from the set of calls to the value   *)
(* the call holds.                                                         *)
(***************************************************************************)
EXTENDS Naturals, Sequences, FiniteSets, TLC

VARIABLES
    calls,              \* the invocations of format_diagnosis_to_html
    text,               \* diagnosis_text, the argument of each call
    lines,              \* lines
    idx,                \* how many elements of lines the for loop has consumed
    stripped_line,      \* stripped_line
    processed_line,     \* processed_line
    list_item_content,  \* list_item_content
    html_lines,         \* html_lines
    in_list,            \* in_list
    pc,                 \* "call", "loop" or "done"
    result              \* the returned text

vars == <<calls, text, lines, idx, stripped_line, processed_line,
          list_item_content, html_lines, in_list, pc, result>>

----------------------------------------------------------------------------
(* Bounds of the inputs.                                                   *)

MaxLines == 4       \* lines in an input text of Spec
MaxPieces == 6      \* pieces in the one-line input text of SpecLine
MaxConcLines == 3   \* lines in each input text of SpecConc
MaxFairLines == 3   \* lines in an input text of SpecFair

----------------------------------------------------------------------------
(* Text literals.                                                          *)

NL == "\n"
UL_OPEN == <<"<", "u", "l", ">">>
UL_CLOSE == <<"<", "/", "u", "l", ">">>
LI_OPEN == <<"<", "l", "i", ">">>
LI_CLOSE == <<"<", "/", "l", "i", ">">>
P_OPEN == <<"<", "p", ">">>
P_CLOSE == <<"<", "/", "p", ">">>
B_OPEN == <<"<", "b", ">">>
B_CLOSE == <<"<", "/", "b", ">">>
STAR2 == <<"*", "*">>
BULLET_DASH == <<"-", " ">>
BULLET_STAR == <<"*", " ">>

\* The characters str.strip() removes, as far as TLA+ strings can write them;
\* the input texts below hold the space and the newline.
Whitespace == {" ", "\t", "\n", "\r", "\f"}

----------------------------------------------------------------------------
(* The string operations the function uses.                                *)

\* s[i:] of Python with a 0-based i, on a 1-based sequence.
Slice(s, i) == SubSeq(s, i + 1, Len(s))

RECURSIVE lstrip(_)
lstrip(s) ==
    IF s # <<>> /\ Head(s) \in Whitespace THEN lstrip(Tail(s)) ELSE s

RECURSIVE rstrip(_)
rstrip(s) ==
    IF s # <<>> /\ s[Len(s)] \in Whitespace
    THEN rstrip(SubSeq(s, 1, Len(s) - 1))
    ELSE s

\* A faulty variant: nothing is stripped.
StripNone(s) == s

\* str.strip(): s without its leading and trailing whitespace.
strip(s) == rstrip(lstrip(s))

\* str.split('\n'): the pieces between newlines; the empty text gives <<"">>.
RECURSIVE split(_)
split(s) ==
    IF \E i \in 1..Len(s) : s[i] = NL
    THEN LET i == CHOOSE k \in 1..Len(s) :
                      s[k] = NL /\ \A m \in 1..(k - 1) : s[m] # NL
         IN  <<SubSeq(s, 1, i - 1)>> \o split(SubSeq(s, i + 1, Len(s)))
    ELSE <<s>>

\* '\n'.join(xs)
RECURSIVE join(_)
join(xs) ==
    IF xs = <<>> THEN <<>>
    ELSE IF Len(xs) = 1 THEN xs[1]
    ELSE xs[1] \o <<NL>> \o join(Tail(xs))

\* str.startswith(p)
startswith(s, p) == Len(s) >= Len(p) /\ SubSeq(s, 1, Len(p)) = p

----------------------------------------------------------------------------
(* re.sub(r'\*\*(.*?)\*\*', r'<b>\1</b>', s).                              *)

\* The literal \*\* of the pattern matches at position i of s.
StarsAt(s, i) == i + 1 <= Len(s) /\ s[i] = "*" /\ s[i + 1] = "*"

\* A faulty variant, the greedy (.*)\*\* tried at position j: the last
\* closing \*\* the group can reach, or 0.
RECURSIVE GreedyClose(_, _)
GreedyClose(s, j) ==
    LET further == IF j <= Len(s) /\ s[j] # NL THEN GreedyClose(s, j + 1) ELSE 0
    IN  IF further # 0 THEN further
        ELSE IF StarsAt(s, j) THEN j
        ELSE 0

\* (.*?)\*\* tried at position j: the lazy group takes no character if the
\* closing \*\* matches at j, else one more character that is not a newline;
\* the result is the position of the closing \*\*, or 0 when the match fails.
RECURSIVE LazyClose(_, _)
LazyClose(s, j) ==
    IF StarsAt(s, j) THEN j
    ELSE IF j <= Len(s) /\ s[j] # NL THEN LazyClose(s, j + 1)
    ELSE 0

\* The pattern matched with its opening \*\* at position i: the position of
\* the closing \*\*, or 0.
MatchClose(s, i) == IF StarsAt(s, i) THEN LazyClose(s, i + 2) ELSE 0

\* re.sub scans from position i: the leftmost match is replaced and the scan
\* resumes after it; a character where no match starts is copied.
RECURSIVE sub_from(_, _)
sub_from(s, i) ==
    IF i > Len(s) THEN <<>>
    ELSE LET c == MatchClose(s, i)
         IN  IF c # 0
             THEN B_OPEN \o SubSeq(s, i + 2, c - 1) \o B_CLOSE \o sub_from(s, c + 2)
             ELSE <<s[i]>> \o sub_from(s, i + 1)

re_sub(s) == sub_from(s, 1)

----------------------------------------------------------------------------
(* The body of the for loop, one branch per kind of line.                  *)

\* A faulty variant: x is put in front.
Prepend(html, x) == <<x>> \o html

\* html_lines.append(x)
append(html, x) == Append(html, x)

\* A faulty variant: a blank line is skipped and the list stays open.
BlankKeepsList(in, html) == [in_list |-> in, html_lines |-> html]

\* Lines 26-28: a blank line closes the open list.
BlankBody(in, html) ==
    IF in THEN [in_list |-> FALSE, html_lines |-> append(html, UL_CLOSE)]
    ELSE [in_list |-> in, html_lines |-> html]

\* A faulty variant: the test looks at the bullet character alone.
IsListItemLoose(processed) ==
    startswith(processed, <<"-">>) \/ startswith(processed, <<"*">>)

\* Line 35: the test on the processed line.
IsListItem(processed) ==
    startswith(processed, BULLET_DASH) \/ startswith(processed, BULLET_STAR)

\* A faulty variant: the content is not stripped.
ContentUnstripped(processed) == Slice(processed, 2)

\* A faulty variant: three characters are dropped instead of two.
ContentDropsThree(processed) == strip(Slice(processed, 3))

\* Line 40: processed_line[2:].strip()
ItemContent(processed) == strip(Slice(processed, 2))

\* A faulty variant: every list-item line opens a list.
ItemAlwaysOpens(in, html, processed) ==
    [in_list |-> TRUE,
     html_lines |-> append(append(html, UL_OPEN),
                           LI_OPEN \o ItemContent(processed) \o LI_CLOSE)]

\* Lines 36-41: a list-item line opens a list when none is open.
ItemBody(in, html, processed) ==
    [in_list |-> TRUE,
     html_lines |-> append(IF ~in THEN append(html, UL_OPEN) ELSE html,
                           LI_OPEN \o ItemContent(processed) \o LI_CLOSE)]

\* A faulty variant: a paragraph line leaves the list open.
ParaKeepsList(in, html, processed) ==
    [in_list |-> in, html_lines |-> append(html, P_OPEN \o processed \o P_CLOSE)]

\* Lines 43-46: a paragraph line closes the open list.
ParaBody(in, html, processed) ==
    [in_list |-> FALSE,
     html_lines |-> append(IF in THEN append(html, UL_CLOSE) ELSE html,
                           P_OPEN \o processed \o P_CLOSE)]

\* A faulty variant: no flush.
FlushNothing(in, html) == html

\* Lines 48-49: the flush after the loop; in_list is not assigned.
Flush(in, html) == IF in THEN append(html, UL_CLOSE) ELSE html

\* Lines 23-46: the body of the loop on one line.
LoopBody(line, in, html) ==
    IF strip(line) = <<>> THEN BlankBody(in, html)
    ELSE IF IsListItem(re_sub(strip(line)))
         THEN ItemBody(in, html, re_sub(strip(line)))
         ELSE ParaBody(in, html, re_sub(strip(line)))

\* Lines 23-51 from the i-th line on, run without interruption.
RECURSIVE RunFrom(_, _, _, _)
RunFrom(ls, i, in, html) ==
    IF i > Len(ls) THEN join(Flush(in, html))
    ELSE LET r == LoopBody(ls[i], in, html)
         IN  RunFrom(ls, i + 1, r.in_list, r.html_lines)

\* Lines 19-51: the function, run alone on diagnosis_text.
format_diagnosis_to_html(diagnosis_text) ==
    RunFrom(split(strip(diagnosis_text)), 1, FALSE, <<>>)

----------------------------------------------------------------------------
(* The calls.                                                              *)

\* A faulty variant: in_list and html_lines are globals, one for all calls.
SharedFrame(c) == 1

\* The frame that holds the locals in_list and html_lines of call c.
Frame(c) == c

\* The line the for loop hands to its body next.
NextLine(c) == lines[c][idx[c] + 1]

\* A faulty variant: the loop stops one line early.
InLoopSkipsLast(c) == pc[c] = "loop" /\ idx[c] + 1 < Len(lines[c])

\* The for loop has a line left to hand to its body.
InLoop(c) == pc[c] = "loop" /\ idx[c] < Len(lines[c])

\* Lines 19-21.
Start(c) ==
    /\ pc[c] = "call"
    /\ \E stripped \in {strip(text[c])} :
           lines' = [lines EXCEPT ![c] = split(stripped)]
    /\ html_lines' = [html_lines EXCEPT ![Frame(c)] = <<>>]
    /\ in_list' = [in_list EXCEPT ![Frame(c)] = FALSE]
    /\ pc' = [pc EXCEPT ![c] = "loop"]
    /\ UNCHANGED <<calls, text, idx, stripped_line, processed_line,
                   list_item_content, result>>

\* Lines 23-29: one iteration on a blank line.
BlankLine(c) ==
    /\ InLoop(c)
    /\ strip(NextLine(c)) = <<>>
    /\ LET r == BlankBody(in_list[Frame(c)], html_lines[Frame(c)])
       IN  /\ in_list' = [in_list EXCEPT ![Frame(c)] = r.in_list]
           /\ html_lines' = [html_lines EXCEPT ![Frame(c)] = r.html_lines]
    /\ stripped_line' = [stripped_line EXCEPT ![c] = <<>>]
    /\ idx' = [idx EXCEPT ![c] = @ + 1]
    /\ UNCHANGED <<calls, text, lines, processed_line, list_item_content,
                   pc, result>>

\* Lines 23-25, 32-41: one iteration on a list-item line.
ListItemLine(c) ==
    /\ InLoop(c)
    /\ \E s \in {strip(NextLine(c))} : \E p \in {re_sub(s)} :
       LET r == ItemBody(in_list[Frame(c)], html_lines[Frame(c)], p)
       IN  /\ s # <<>>
           /\ IsListItem(p)
           /\ in_list' = [in_list EXCEPT ![Frame(c)] = r.in_list]
           /\ html_lines' = [html_lines EXCEPT ![Frame(c)] = r.html_lines]
           /\ stripped_line' = [stripped_line EXCEPT ![c] = s]
           /\ processed_line' = [processed_line EXCEPT ![c] = p]
           /\ list_item_content' = [list_item_content EXCEPT ![c] = ItemContent(p)]
    /\ idx' = [idx EXCEPT ![c] = @ + 1]
    /\ UNCHANGED <<calls, text, lines, pc, result>>

\* Lines 23-25, 32-35, 42-46: one iteration on a paragraph line.
ParagraphLine(c) ==
    /\ InLoop(c)
    /\ \E s \in {strip(NextLine(c))} : \E p \in {re_sub(s)} :
       LET r == ParaBody(in_list[Frame(c)], html_lines[Frame(c)], p)
       IN  /\ s # <<>>
           /\ ~IsListItem(p)
           /\ in_list' = [in_list EXCEPT ![Frame(c)] = r.in_list]
           /\ html_lines' = [html_lines EXCEPT ![Frame(c)] = r.html_lines]
           /\ stripped_line' = [stripped_line EXCEPT ![c] = s]
           /\ processed_line' = [processed_line EXCEPT ![c] = p]
    /\ idx' = [idx EXCEPT ![c] = @ + 1]
    /\ UNCHANGED <<calls, text, lines, list_item_content, pc, result>>

\* Lines 48-51: the loop is exhausted; flush and return.
Finish(c) ==
    /\ pc[c] = "loop"
    /\ idx[c] = Len(lines[c])
    /\ html_lines' = [html_lines EXCEPT
                        ![Frame(c)] = Flush(in_list[Frame(c)], html_lines[Frame(c)])]
    /\ result' = [result EXCEPT ![c] = join(html_lines'[Frame(c)])]
    /\ pc' = [pc EXCEPT ![c] = "done"]
    /\ UNCHANGED <<calls, text, lines, idx, stripped_line, processed_line,
                   list_item_content, in_list>>

Next ==
    \/ \E c \in calls : Start(c)
    \/ \E c \in calls : BlankLine(c)
    \/ \E c \in calls : ListItemLine(c)
    \/ \E c \in calls : ParagraphLine(c)
    \/ \E c \in calls : Finish(c)

----------------------------------------------------------------------------
(* Inputs and specifications.                                              *)

\* All sequences over S of length at most n.
SeqsUpTo(S, n) == UNION {[1..k -> S] : k \in 0..n}

RECURSIVE Concat(_)
Concat(xs) == IF xs = <<>> THEN <<>> ELSE Head(xs) \o Concat(Tail(xs))

\* The lines the input texts of Spec are made of: empty, spaces only, a
\* paragraph, a list-item, an indented list-item with inner and trailing
\* spaces, a paragraph with a bold span, a list-item with the other bullet
\* and a bold span, and a bullet with nothing after it.
LineForms ==
    { <<>>,
      <<" ">>,
      <<"a">>,
      <<"-", " ", "a">>,
      <<" ", "-", " ", " ", "a", " ">>,
      <<"*", "*", "a", "*", "*">>,
      <<"*", " ", "*", "*", "a", "*", "*">>,
      <<"-", " ">> }

\* The input texts of Spec: at most n lines joined by newlines.
LineTexts(n) == {join(ls) : ls \in SeqsUpTo(LineForms, n)}

\* The pieces the one-line input texts of SpecLine are made of, and those
\* texts: at most n pieces.
LinePieces == {STAR2, <<"*">>, <<"-">>, <<" ">>, <<"a">>}
PieceTexts(n) == {Concat(ps) : ps \in SeqsUpTo(LinePieces, n)}

\* The lines of the input texts of SpecConc, and those texts.
ConcLines == {<<>>, <<"-", " ", "a">>, <<"a">>}
ConcTexts(n) == {join(ls) : ls \in SeqsUpTo(ConcLines, n)}

InitWith(C, T) ==
    /\ calls = C
    /\ text \in [C -> T]
    /\ lines = [c \in C |-> <<>>]
    /\ idx = [c \in C |-> 0]
    /\ stripped_line = [c \in C |-> <<>>]
    /\ processed_line = [c \in C |-> <<>>]
    /\ list_item_content = [c \in C |-> <<>>]
    /\ html_lines = [c \in C |-> <<>>]
    /\ in_list = [c \in C |-> FALSE]
    /\ pc = [c \in C |-> "call"]
    /\ result = [c \in C |-> <<>>]

Init == InitWith({1}, LineTexts(MaxLines))
InitLine == InitWith({1}, PieceTexts(MaxPieces))
InitConc == InitWith({1, 2}, ConcTexts(MaxConcLines))
InitFair == InitWith({1}, LineTexts(MaxFairLines))

Spec == Init /\ [][Next]_vars
SpecLine == InitLine /\ [][Next]_vars
SpecConc == InitConc /\ [][Next]_vars

\* The function has no blocking operation: a call that has not returned
\* takes its next step.
SpecFair == InitFair /\ [][Next]_vars /\ WF_vars(Next)

TypeOK ==
    /\ \A c \in calls : pc[c] \in {"call", "loop", "done"}
    /\ \A c \in calls : idx[c] <= Len(lines[c])
    /\ \A c \in calls : in_list[c] \in BOOLEAN

----------------------------------------------------------------------------
(* The vocabulary of the specification, stated on the input and the        *)
(* output alone.                                                           *)

Done(c) == pc[c] = "done"

\* How many elements of xs equal x.
Count(xs, x) == Cardinality({i \in DOMAIN xs : xs[i] = x})

Last(xs) == xs[Len(xs)]

endswith(s, p) == Len(s) >= Len(p) /\ SubSeq(s, Len(s) - Len(p) + 1, Len(s)) = p

\* The trimmed form of a line: from its first to its last character that is
\* not whitespace.
NonWs(s) == {i \in 1..Len(s) : s[i] \notin Whitespace}
Trimmed(s) ==
    IF NonWs(s) = {} THEN <<>>
    ELSE SubSeq(s, CHOOSE i \in NonWs(s) : \A j \in NonWs(s) : i <= j,
                   CHOOSE i \in NonWs(s) : \A j \in NonWs(s) : i >= j)

HasBullet(t) == startswith(t, BULLET_DASH) \/ startswith(t, BULLET_STAR)

\* The class of a line in the data model, decided on its trimmed form.
LineKind(line) ==
    IF Trimmed(line) = <<>> THEN "blank"
    ELSE IF HasBullet(Trimmed(line)) THEN "list-item"
    ELSE "paragraph"

\* The physical lines of the input of call c, and those that are not blank.
PhysicalLines(c) == split(text[c])
IsNonBlank(line) == LineKind(line) # "blank"
NonBlankLines(c) == SelectSeq(PhysicalLines(c), IsNonBlank)

\* The lines of the returned text.
OutputLines(c) == split(result[c])

IsLi(x) == startswith(x, LI_OPEN) /\ endswith(x, LI_CLOSE)
IsP(x) == startswith(x, P_OPEN) /\ endswith(x, P_CLOSE)

----------------------------------------------------------------------------
\* C1: for every input, the returned text has as many lines equal to '</ul>'
\* as lines equal to '<ul>'.
C1_ListBalance ==
    \A c \in calls :
        Done(c) => LET out == OutputLines(c)
                   IN  Count(out, UL_CLOSE) = Count(out, UL_OPEN)

\* A call that returned two lists, the second one closed by the flush at the
\* end of the input.
C1_Witness ==
    \E c \in calls :
        /\ Done(c)
        /\ Count(OutputLines(c), UL_OPEN) = 2
        /\ LineKind(Last(PhysicalLines(c))) = "list-item"

\* C2 as stated: at the end of processing in_list is false for every input.
C2_FlagFalseAtEnd == \A c \in calls : Done(c) => ~in_list[c]

\* C2 amended: the flush closes the open list without resetting the flag.  At
\* the end in_list is true exactly when the last non-blank line of the input
\* is a list-item, and then the last line of the output is '</ul>'.
C2_FlagAtEnd ==
    \A c \in calls :
        Done(c) =>
            LET nb == NonBlankLines(c)
            IN  /\ in_list[c] <=>
                      (nb # <<>> /\ LineKind(Last(nb)) = "list-item")
                /\ in_list[c] => /\ html_lines[c] # <<>>
                                 /\ Last(html_lines[c]) = UL_CLOSE
                                 /\ Last(OutputLines(c)) = UL_CLOSE

\* A call that returned with the flag still set, and one whose input had a
\* list closed by a paragraph before the end.
C2_Witness ==
    \E c \in calls :
        /\ Done(c)
        /\ in_list[c]
        /\ Count(html_lines[c], UL_CLOSE) = 2

\* C3: if every physical line of the input is blank (the empty text
\* included), the returned text is empty and nothing was emitted.
C3_BlankInputEmptyOutput ==
    \A c \in calls :
        Done(c) =>
            LET ls == PhysicalLines(c)
            IN  (\A i \in DOMAIN ls : \A k \in DOMAIN ls[i] : ls[i][k] \in Whitespace)
                    => result[c] = <<>> /\ html_lines[c] = <<>>

\* A call that returned on an input of several blank lines, one of them made
\* of spaces.
C3_Witness ==
    \E c \in calls :
        /\ Done(c)
        /\ LET ls == PhysicalLines(c)
           IN  /\ Len(ls) >= 3
               /\ \A i \in DOMAIN ls : LineKind(ls[i]) = "blank"
               /\ \E i \in DOMAIN ls : ls[i] # <<>>

----------------------------------------------------------------------------
(* The elements the specification expects of a line.                       *)

\* The <li> element of a list-item line and the <p> element of a paragraph
\* line.
LiOf(line) == LI_OPEN \o ItemContent(re_sub(Trimmed(line))) \o LI_CLOSE
POf(line) == P_OPEN \o re_sub(Trimmed(line)) \o P_CLOSE
ElementOf(line) == IF LineKind(line) = "list-item" THEN LiOf(line) ELSE POf(line)

\* Call c has just taken the step of its loop on line number idx'[c].
LoopStep(c) == pc[c] = "loop" /\ idx'[c] = idx[c] + 1

\* The classes of the lines of ls, in order.
Kinds(ls) == [k \in 1..Len(ls) |-> LineKind(ls[k])]

\* Lines i..j are a maximal run of consecutive list-item lines, ks being the
\* classes of the lines.
MaxRun(ks, i, j) ==
    /\ 1 <= i /\ i <= j /\ j <= Len(ks)
    /\ \A k \in i..j : ks[k] = "list-item"
    /\ i = 1 \/ ks[i - 1] # "list-item"
    /\ j = Len(ks) \/ ks[j + 1] # "list-item"

\* The maximal runs that lie within the first n lines.
RunsWithin(ks, n) == {r \in (1..n) \X (1..n) : MaxRun(ks, r[1], r[2])}

\* How many of the first n lines are not blank.
NonBlankWithin(ks, n) == Cardinality({k \in 1..n : ks[k] # "blank"})

----------------------------------------------------------------------------
\* C4: a step on a paragraph line that directly follows a list-item line
\* appends '</ul>' and then the <p> element, right after that list-item's
\* <li> element, and leaves in_list false; "- a\na" returns <ul>, <li>a</li>,
\* </ul>, <p>a</p>.
C4_Example ==
    \A c \in calls :
        (Done(c) /\ text[c] = <<"-", " ", "a", NL, "a">>)
            => result[c] = UL_OPEN \o <<NL>> \o LI_OPEN \o <<"a">> \o LI_CLOSE
                              \o <<NL>> \o UL_CLOSE
                              \o <<NL>> \o P_OPEN \o <<"a">> \o P_CLOSE

C4_Step ==
    \A c \in calls :
        (/\ LoopStep(c)
         /\ idx[c] >= 1
         /\ LineKind(lines[c][idx[c]]) = "list-item"
         /\ LineKind(lines[c][idx'[c]]) = "paragraph")
            => /\ Last(html_lines[c]) = LiOf(lines[c][idx[c]])
               /\ html_lines'[c] =
                      html_lines[c] \o <<UL_CLOSE, POf(lines[c][idx'[c]])>>
               /\ ~in_list'[c]

C4_CloseBeforeParagraph == []C4_Example /\ [][C4_Step]_vars

\* The loop has just handled a paragraph line that directly follows a
\* list-item line.
C4_Witness ==
    \E c \in calls :
        /\ pc[c] = "loop"
        /\ idx[c] >= 2
        /\ LineKind(lines[c][idx[c] - 1]) = "list-item"
        /\ LineKind(lines[c][idx[c]]) = "paragraph"
        /\ Len(html_lines[c]) >= 4

\* C5: every maximal run of n >= 1 consecutive list-item lines gives one
\* '<ul>', then its n <li> elements in line order, then one '</ul>', at the
\* place of the output its lines have; there are as many '<ul>' and as many
\* '</ul>' as runs; "- a" returns <ul>, <li>a</li>, </ul>.
C5_RunsMakeOneList ==
    \A c \in calls :
        Done(c) =>
            LET ls == PhysicalLines(c)
                ks == Kinds(ls)
                out == OutputLines(c)
                runs == RunsWithin(ks, Len(ks))
            IN  /\ \A r \in runs :
                       LET i == r[1]
                           n == r[2] - r[1] + 1
                           p == NonBlankWithin(ks, i - 1)
                                  + 2 * Cardinality(RunsWithin(ks, i - 1)) + 1
                       IN  /\ p + n + 1 <= Len(out)
                           /\ out[p] = UL_OPEN
                           /\ \A k \in 1..n : out[p + k] = LiOf(ls[i + k - 1])
                           /\ out[p + n + 1] = UL_CLOSE
                /\ Count(out, UL_OPEN) = Cardinality(runs)
                /\ Count(out, UL_CLOSE) = Cardinality(runs)
                /\ text[c] = <<"-", " ", "a">>
                       => result[c] = UL_OPEN \o <<NL>> \o LI_OPEN \o <<"a">>
                                          \o LI_CLOSE \o <<NL>> \o UL_CLOSE

\* A call that returned on an input with a run of two list-item lines that a
\* paragraph line ends, and a run of one that the end of the input closes.
C5_Witness ==
    \E c \in calls :
        /\ Done(c)
        /\ Kinds(PhysicalLines(c)) = <<"list-item", "list-item", "paragraph",
                                       "list-item">>
        /\ Count(OutputLines(c), UL_OPEN) = 2

\* C6: a step on a blank line appends exactly '</ul>' when in_list was true
\* and nothing when it was false, and leaves in_list false; so a list-item
\* line that follows blank lines opens a new list, after the '</ul>' that
\* closed the list of the list-item line before the blank lines.
C6_Step ==
    \A c \in calls :
        /\ (LoopStep(c) /\ LineKind(lines[c][idx'[c]]) = "blank")
               => /\ ~in_list'[c]
                  /\ html_lines'[c] = IF in_list[c]
                                      THEN html_lines[c] \o <<UL_CLOSE>>
                                      ELSE html_lines[c]
        /\ (/\ LoopStep(c)
            /\ idx[c] >= 1
            /\ LineKind(lines[c][idx'[c]]) = "list-item"
            /\ LineKind(lines[c][idx[c]]) = "blank")
               => /\ html_lines'[c] =
                         html_lines[c] \o <<UL_OPEN, LiOf(lines[c][idx'[c]])>>
                  /\ \A m \in 1..(idx[c] - 1) :
                         (/\ LineKind(lines[c][m]) = "list-item"
                          /\ \A k \in (m + 1)..idx[c] :
                                 LineKind(lines[c][k]) = "blank")
                             => /\ Len(html_lines[c]) >= 2
                                /\ Last(html_lines[c]) = UL_CLOSE
                                /\ html_lines[c][Len(html_lines[c]) - 1]
                                       = LiOf(lines[c][m])

C6_BlankClosesList == [][C6_Step]_vars

\* The loop has just handled a list-item line that follows a blank line that
\* follows a list-item line: two lists.
C6_Witness ==
    \E c \in calls :
        /\ pc[c] = "loop"
        /\ idx[c] >= 3
        /\ LineKind(lines[c][idx[c]]) = "list-item"
        /\ LineKind(lines[c][idx[c] - 1]) = "blank"
        /\ LineKind(lines[c][idx[c] - 2]) = "list-item"
        /\ Count(html_lines[c], UL_OPEN) = 2
        /\ Count(html_lines[c], UL_CLOSE) = 1

\* C7: the <p> and <li> elements of the output, in order, are the elements of
\* the non-blank lines of the input, in order: a <p> for a paragraph line, a
\* <li> for a list-item line, none for a blank line.
IsElement(x) == IsLi(x) \/ IsP(x)

C7_OutputOrder ==
    \A c \in calls :
        Done(c) =>
            LET nb == NonBlankLines(c)
            IN  SelectSeq(OutputLines(c), IsElement)
                    = [i \in 1..Len(nb) |-> ElementOf(nb[i])]

\* A call that returned on an input of a paragraph line, a blank line, a
\* list-item line and a paragraph line with a bold span.
C7_Witness ==
    \E c \in calls :
        /\ Done(c)
        /\ PhysicalLines(c) = << <<"a">>, <<" ">>, <<"-", " ", "a">>,
                                 <<"*", "*", "a", "*", "*">> >>
        /\ Len(html_lines[c]) = 5

----------------------------------------------------------------------------
(* The reference scanner of the specification for inline emphasis.         *)

\* The first position at or after from where s holds '**', or 0.
FindStars(s, from) ==
    LET hits == {i \in from..(Len(s) - 1) : s[i] = "*" /\ s[i + 1] = "*"}
    IN  IF hits = {} THEN 0 ELSE CHOOSE i \in hits : \A j \in hits : i <= j

\* Left to right from position from: the first '**' opens a span, the next
\* '**' after it closes the span; when either is missing, the rest of the
\* line is literal.
RECURSIVE ScanFrom(_, _)
ScanFrom(s, from) ==
    LET open == FindStars(s, from)
        close == IF open = 0 THEN 0 ELSE FindStars(s, open + 2)
    IN  IF close = 0 THEN SubSeq(s, from, Len(s))
        ELSE SubSeq(s, from, open - 1)
                 \o B_OPEN \o SubSeq(s, open + 2, close - 1) \o B_CLOSE
                 \o ScanFrom(s, close + 2)

ReferenceScan(s) == ScanFrom(s, 1)

----------------------------------------------------------------------------
\* C8: the processed line of every non-blank line is what the reference
\* left-to-right, non-greedy scanner makes of its trimmed form; "**a** a"
\* becomes "<b>a</b> a" and a line with a single '**' is unchanged.
C8_EmphasisIsReferenceScan ==
    \A c \in calls :
        (idx[c] >= 1 /\ LineKind(lines[c][idx[c]]) # "blank") =>
            LET t == Trimmed(lines[c][idx[c]])
            IN  /\ stripped_line[c] = t
                /\ processed_line[c] = ReferenceScan(t)
                /\ t = <<"*", "*", "a", "*", "*", " ", "a">>
                       => processed_line[c] = B_OPEN \o <<"a">> \o B_CLOSE \o <<" ", "a">>
                /\ Count(t, "*") = 2 /\ FindStars(t, 1) # 0
                       => processed_line[c] = t

\* A line of two spans with text in them, both converted.
C8_Witness ==
    \E c \in calls :
        /\ idx[c] >= 1
        /\ stripped_line[c] = <<"*", "*", "a", "*", "*", "*", "*", "a", "*", "*">>
        /\ processed_line[c] = B_OPEN \o <<"a">> \o B_CLOSE \o B_OPEN \o <<"a">> \o B_CLOSE

\* C9: the content of the <li> element of a list-item line is its trimmed
\* form without the 2-character bullet prefix, trimmed, with emphasis
\* substitution applied to that remainder: substituting on the full trimmed
\* line and then dropping 2 characters gives the same.
C9_ItemContent ==
    \A c \in calls :
        (pc[c] = "loop" /\ idx[c] >= 1 /\ LineKind(lines[c][idx[c]]) = "list-item") =>
            LET rest == Trimmed(Slice(Trimmed(lines[c][idx[c]]), 2))
            IN  /\ list_item_content[c] = re_sub(rest)
                /\ Last(html_lines[c]) = LI_OPEN \o re_sub(rest) \o LI_CLOSE

\* A list-item line whose '**' directly follows the '* ' bullet.
C9_Witness ==
    \E c \in calls :
        /\ pc[c] = "loop"
        /\ idx[c] >= 1
        /\ stripped_line[c] = <<"*", " ", "*", "*", "a", "*", "*">>
        /\ Last(html_lines[c]) = LI_OPEN \o B_OPEN \o <<"a">> \o B_CLOSE \o LI_CLOSE

\* C10: with the steps of two calls interleaved in any way, a step of one
\* call leaves the in_list and html_lines of the other as they were, and each
\* call returns what the function returns on its input when run alone.
C10_ReturnsAsAlone ==
    \A c \in calls : Done(c) => result[c] = format_diagnosis_to_html(text[c])

C10_Step ==
    \A c \in calls :
        (pc'[c] = pc[c] /\ idx'[c] = idx[c])
            => in_list'[c] = in_list[c] /\ html_lines'[c] = html_lines[c]

C10_NoInterference == []C10_ReturnsAsAlone /\ [][C10_Step]_vars

\* Both calls are inside their loops, one with an open list and the other
\* without, each with output of its own.
C10_Witness ==
    /\ calls = {1, 2}
    /\ pc[1] = "loop" /\ pc[2] = "loop"
    /\ idx[1] >= 2 /\ idx[2] >= 2
    /\ in_list[1] /\ ~in_list[2]
    /\ html_lines[1] # html_lines[2]
    /\ text[1] # text[2]

----------------------------------------------------------------------------
\* The lines of the input of call c once the text as a whole is trimmed.
TrimmedTextLines(c) == split(Trimmed(text[c]))

\* C11 as stated: the loop takes one step per physical line of the input.
C11_StepPerPhysicalLine ==
    \A c \in calls : Done(c) => idx[c] = Len(PhysicalLines(c))

\* C11 amended: the function is total.  The text is trimmed as a whole before
\* it is split, so the loop takes exactly one step per line of the trimmed
\* text (blank physical lines at the start and the end of the input get no
\* step), each step moves to the next line, a call that has not returned can
\* always take a step, and every call returns.
C11_Steps ==
    \A c \in calls :
        /\ pc[c] # "call" => /\ lines[c] = TrimmedTextLines(c)
                             /\ idx[c] <= Len(lines[c])
        /\ Done(c) => idx[c] = Len(TrimmedTextLines(c))

C11_NotStuck == (\E c \in calls : ~Done(c)) => ENABLED Next

C11_Step ==
    \A c \in calls :
        /\ idx'[c] = idx[c] \/ (pc[c] = "loop" /\ pc'[c] = "loop" /\ idx'[c] = idx[c] + 1)
        /\ pc'[c] # pc[c] =>
               \/ pc[c] = "call" /\ pc'[c] = "loop"
               \/ pc[c] = "loop" /\ pc'[c] = "done" /\ idx[c] = Len(lines[c])

C11_Total ==
    /\ []C11_Steps
    /\ []C11_NotStuck
    /\ [][C11_Step]_vars
    /\ <>(\A c \in calls : Done(c))

\* A call that returned on an input whose first and last physical lines are
\* blank: fewer steps than physical lines.
C11_Witness ==
    \E c \in calls :
        /\ Done(c)
        /\ Len(PhysicalLines(c)) = 3
        /\ idx[c] = 1
        /\ LineKind(PhysicalLines(c)[1]) = "blank"
        /\ LineKind(PhysicalLines(c)[2]) = "list-item"
        /\ LineKind(PhysicalLines(c)[3]) = "blank"

----------------------------------------------------------------------------
\* C12: lists are never nested nor closed twice.  After any prefix of the
\* lines the '<ul>' emitted are one more than the '</ul>' emitted when
\* in_list is true and as many when it is false; a step emits '<ul>' only
\* from in_list false and '</ul>' only from in_list true, and it leaves
\* in_list true when it appends a <li> element and false when it appends a
\* <p> element.
C12_OpenListsMatchFlag ==
    \A c \in calls :
        pc[c] = "loop" =>
            Count(html_lines[c], UL_OPEN)
                = Count(html_lines[c], UL_CLOSE) + (IF in_list[c] THEN 1 ELSE 0)

C12_Step ==
    \A c \in calls :
        /\ Len(html_lines'[c]) >= Len(html_lines[c])
        /\ SubSeq(html_lines'[c], 1, Len(html_lines[c])) = html_lines[c]
        /\ \A k \in (Len(html_lines[c]) + 1)..Len(html_lines'[c]) :
               LET x == html_lines'[c][k]
               IN  /\ x = UL_OPEN => ~in_list[c] /\ in_list'[c]
                   /\ x = UL_CLOSE => in_list[c]
                   /\ IsLi(x) => in_list'[c]
                   /\ IsP(x) => ~in_list'[c]
                   /\ x = UL_OPEN \/ x = UL_CLOSE \/ IsLi(x) \/ IsP(x)

C12_NoNesting == []C12_OpenListsMatchFlag /\ [][C12_Step]_vars

\* The loop is inside the second list of its input, the first one closed.
C12_Witness ==
    \E c \in calls :
        /\ pc[c] = "loop"
        /\ in_list[c]
        /\ Count(html_lines[c], UL_OPEN) = 2
        /\ Count(html_lines[c], UL_CLOSE) = 1
        /\ IsLi(Last(html_lines[c]))

----------------------------------------------------------------------------
\* C13: the class the code gives a line, testing the processed line, is the
\* class of its trimmed form: the processed line starts with a bullet prefix
\* exactly when the trimmed line does, a list-item line gets a <li> element,
\* a paragraph line a <p> element and a blank line none.
C13_SameClass ==
    \A c \in calls :
        (pc[c] = "loop" /\ idx[c] >= 1) =>
            LET t == Trimmed(lines[c][idx[c]])
            IN  IF t = <<>>
                THEN stripped_line[c] = <<>> /\ html_lines[c] = <<>>
                ELSE /\ HasBullet(processed_line[c]) <=> HasBullet(t)
                     /\ IsListItem(processed_line[c]) <=> HasBullet(t)
                     /\ IsLi(Last(html_lines[c])) <=> HasBullet(t)
                     /\ IsP(Last(html_lines[c])) <=> ~HasBullet(t)

\* A line whose second and third characters are '* ' and whose first '**'
\* opens a span: a paragraph before and after the substitution.
C13_Witness ==
    \E c \in calls :
        /\ pc[c] = "loop"
        /\ idx[c] >= 1
        /\ stripped_line[c] = <<"*", "*", " ", "*", "*">>
        /\ processed_line[c] = B_OPEN \o <<" ">> \o B_CLOSE
        /\ IsP(Last(html_lines[c]))

----------------------------------------------------------------------------
\* The four block shapes; the content of an element is what lies between its
\* opening and its closing tag.
IsFullLi(x) == IsLi(x) /\ Len(x) > Len(LI_OPEN) + Len(LI_CLOSE)
IsFullP(x) == IsP(x) /\ Len(x) > Len(P_OPEN) + Len(P_CLOSE)

ShapesOf(x) ==
    {k \in {"ul", "/ul", "li", "p"} :
        \/ k = "ul" /\ x = UL_OPEN
        \/ k = "/ul" /\ x = UL_CLOSE
        \/ k = "li" /\ IsFullLi(x)
        \/ k = "p" /\ IsFullP(x)}

\* Every element of blocks has exactly one shape and every '<ul>' is directly
\* followed by a <li> element.
WellShaped(blocks) ==
    /\ \A k \in DOMAIN blocks : Cardinality(ShapesOf(blocks[k])) = 1
    /\ \A k \in DOMAIN blocks :
           blocks[k] = UL_OPEN => k < Len(blocks) /\ IsFullLi(blocks[k + 1])

\* C14: every line of the output is '<ul>', '</ul>', a <li> element or a <p>
\* element, the content of every <li> and <p> is not empty, and every '<ul>'
\* is directly followed by a <li> element; so are the blocks emitted so far
\* at every step.
C14_OutputShapes ==
    \A c \in calls :
        /\ WellShaped(html_lines[c])
        /\ (Done(c) /\ result[c] # <<>>) => WellShaped(OutputLines(c))
        /\ Done(c) => OutputLines(c) = (IF html_lines[c] = <<>> THEN << <<>> >>
                                        ELSE html_lines[c])

\* A call that returned all four shapes, the <li> element with a bold span.
C14_Witness ==
    \E c \in calls :
        /\ Done(c)
        /\ OutputLines(c) = <<UL_OPEN,
                              LI_OPEN \o B_OPEN \o <<"a">> \o B_CLOSE \o LI_CLOSE,
                              UL_CLOSE,
                              P_OPEN \o <<"-">> \o P_CLOSE>>
====
